---- MODULE Spec2Model ----
(***************************************************************************)
(* Reading-hall admin frontend: the polling views (Dashboard, the          *)
(* ApiService.startPolling helper) and the SeatLayout view, as one state   *)
(* machine over the browser's single event loop.  Every action is one      *)
(* run-to-completion task of that loop: an effect, a timer callback, a     *)
(* click handler, or the continuation of an awaited request.               *)
(***************************************************************************)
EXTENDS Integers, Sequences, FiniteSets, TLC

\* ------------------------------------------------------------------ bounds
\* Number of interval periods the clock may run for.
MaxPeriods == 1
\* Number of getHallSeats requests a SeatLayout may issue.
MaxSeatFetches == 3
\* Length of the seat lists the grid functions are checked on.
MaxSeats == 2
\* Length of the active-session lists the duration is checked on.
MaxSessions == 1
\* Length of the daily_stats lists the usage chart is checked on.
MaxStats == 2

\* ------------------------------------------------------- program constants
\* `interval = 30000` (ApiService.startPolling) and the literal 30000 of
\* Dashboard's setInterval.
DefaultInterval == 30000
DashboardInterval == 30000
\* useState(1) of selectedHallId.
InitialHallId == 1
\* `timeout: 10000` of axios.create: a request is settled within it.
Timeout == 10000

\* Granularity of the modelled clock, and its horizon.
TimeStep == Timeout
MaxTime == MaxPeriods * DefaultInterval

\* JavaScript `undefined` and `null`.
Undefined == "undefined"
Null == [t |-> "null"]

\* ------------------------------------------------------------ backend data
\* Payloads are opaque to the fetch wrappers: they are handed to the setter
\* as received.
InitialOverview ==
    [total_seats |-> 0, occupied_seats |-> 0, available_seats |-> 0,
     occupancy_rate |-> 0, sessions_today |-> 0, avg_duration_minutes |-> 0]

OverviewResponses ==
    { [total_seats |-> 50, occupied_seats |-> 20, available_seats |-> 30,
       occupancy_rate |-> 40, sessions_today |-> 12, avg_duration_minutes |-> 45],
      [total_seats |-> 50, occupied_seats |-> 21, available_seats |-> 29,
       occupancy_rate |-> 42, sessions_today |-> 13, avg_duration_minutes |-> 44] }

SessionsResponses ==
    { << >>,
      << [id |-> 1, seat_number |-> "R3S7", check_in_time |-> 0] >> }

\* Responses of the endpoint handed to startPolling.
PollResponses == {"p1", "p2"}

\* The endpoints a controller fetches.
DashboardEndpoints == {"overview", "sessions", "usage"}
TickEndpoints == {"overview", "sessions"}
Endpoints == DashboardEndpoints \cup {"poll", "halls", "seats"}

VARIABLES
    active,          \* which controller this behaviour exercises
    phase,           \* "init" | "active" | "stopped" : its lifecycle
    now,             \* wall clock, ms
    interval,        \* Dashboard: the setInterval handle
    overview,        \* Dashboard state
    activeSessions,  \* Dashboard state
    usageData,       \* Dashboard state
    loading,         \* Dashboard state
    intervalId,      \* startPolling: the setInterval handle
    callbackData,    \* startPolling: what the caller's callback last received
    halls,           \* SeatLayout state
    selectedHallId,  \* SeatLayout state
    seats,           \* SeatLayout state
    seatsLoading,    \* SeatLayout state `loading`
    selectedSeat,    \* SeatLayout state
    seatsHall,       \* history: the hall the displayed seats were requested for
    pending,         \* requests in flight
    issued,          \* requests started so far, per endpoint
    newest,          \* history: the highest issue number fulfilled, per endpoint
    lastEvent        \* history: the task the event loop ran last

vars == << active, phase, now, interval, overview, activeSessions, usageData,
           loading, intervalId, callbackData, halls, selectedHallId, seats,
           seatsLoading, selectedSeat, seatsHall, pending, issued, newest,
           lastEvent >>

dashVars == << interval, overview, activeSessions, usageData, loading >>
pollVars == << intervalId, callbackData >>
seatVars == << halls, selectedHallId, seats, seatsLoading, selectedSeat, seatsHall >>

\* A timer handle: armed until cleared, firing every `period` ms.
NoTimer == [armed |-> FALSE, due |-> 0, period |-> 0]
SetInterval(period) == [armed |-> TRUE, due |-> now + period, period |-> period]
ClearInterval(t) == [t EXCEPT !.armed = FALSE]
Rearm(t) == [t EXCEPT !.due = t.due + t.period]

\* A request in flight: the endpoint and its issue number on that endpoint.
\* arg is the hall id a seats request was built with (0 elsewhere); axios
\* rejects the request when `deadline` passes without a response.
Request(e, n) == [endpoint |-> e, seq |-> n, arg |-> 0, deadline |-> now + Timeout]
SeatsRequest(n, hallId) ==
    [endpoint |-> "seats", seq |-> n, arg |-> hallId, deadline |-> now + Timeout]

\* What the event loop ran last.  A settled request records whether the
\* wrapper reached its apply step (the state setter or the callback).
Event(kind) == [kind |-> kind]
Fulfilled(r, data, applied) ==
    [kind |-> "fulfilled", endpoint |-> r.endpoint, seq |-> r.seq, data |-> data,
     applied |-> applied]
Rejected(r) == [kind |-> "rejected", endpoint |-> r.endpoint, seq |-> r.seq]
\* A fulfilled seats request also records whether it delivered the very
\* list that was displayed before it.
SeatsFulfilled(r, data, before) ==
    [kind |-> "fulfilled", endpoint |-> r.endpoint, seq |-> r.seq, data |-> data,
     applied |-> TRUE, repeated |-> (before = data)]
Newest(r) ==
    [newest EXCEPT ![r.endpoint] = IF r.seq > @ THEN r.seq ELSE @]

\* Start one request on each endpoint of es.
Issue(es) ==
    /\ pending' = pending \cup { Request(e, issued[e] + 1) : e \in es }
    /\ issued' = [e \in Endpoints |-> IF e \in es THEN issued[e] + 1 ELSE issued[e]]

Init ==
    /\ active \in {"Dashboard", "startPolling", "SeatLayout"}
    /\ phase = "init"
    /\ now = 0
    /\ interval = NoTimer
    /\ overview = InitialOverview
    /\ activeSessions = << >>
    /\ usageData = << >>
    /\ loading = TRUE
    /\ intervalId = NoTimer
    /\ callbackData = Undefined
    /\ halls = << >>
    /\ selectedHallId = InitialHallId
    /\ seats = << >>
    /\ seatsLoading = TRUE
    /\ selectedSeat = Null
    /\ seatsHall = 0
    /\ pending = {}
    /\ issued = [e \in Endpoints |-> 0]
    /\ newest = [e \in Endpoints |-> 0]
    /\ lastEvent = Event("none")

\* ---------------------------------------------------------------- clock
\* Time passes, but never beyond the due time of an armed timer (the timer
\* callback runs first) nor beyond the deadline of a request in flight (it
\* is settled first, by a response or by the timeout).
Advance ==
    /\ phase # "init"
    /\ now < MaxTime
    /\ ~(interval.armed /\ interval.due = now)
    /\ ~(intervalId.armed /\ intervalId.due = now)
    /\ \A r \in pending : r.deadline > now
    /\ LET stops == { now + TimeStep, MaxTime }
                     \cup { t.due : t \in { x \in {interval, intervalId} : x.armed } }
                     \cup { r.deadline : r \in pending }
       IN now' = CHOOSE t \in stops : \A u \in stops : t <= u
    /\ lastEvent' = Event("advance")
    /\ UNCHANGED << newest, seatVars, active, phase, dashVars, pollVars, pending, issued >>

\* ------------------------------------------------------------ Dashboard
\* useEffect(() => {...}, []) on mount.
DashboardMount ==
    /\ active = "Dashboard" /\ phase = "init"
    /\ phase' = "active"
    /\ Issue(DashboardEndpoints)
    /\ interval' = SetInterval(DashboardInterval)
    /\ lastEvent' = Event("activate")
    /\ UNCHANGED << newest, seatVars, active, now, overview, activeSessions, usageData, loading,
                    pollVars >>

\* Mutant of DashboardTick: the timer callback refreshes the overview only.
DashboardTickOverviewOnly ==
    /\ active = "Dashboard"
    /\ interval.armed /\ interval.due = now
    /\ Issue({"overview"})
    /\ interval' = Rearm(interval)
    /\ lastEvent' = Event("tick")
    /\ UNCHANGED << newest, seatVars, active, phase, now, overview, activeSessions,
                    usageData, loading, pollVars >>

\* The setInterval callback.
DashboardTick ==
    /\ active = "Dashboard"
    /\ interval.armed /\ interval.due = now
    /\ Issue(TickEndpoints)
    /\ interval' = Rearm(interval)
    /\ lastEvent' = Event("tick")
    /\ UNCHANGED << newest, seatVars, active, phase, now, overview, activeSessions, usageData,
                    loading, pollVars >>

\* Mutant of DashboardUnmount: the cleanup forgets clearInterval.
DashboardUnmountKeepsTimer ==
    /\ active = "Dashboard" /\ phase = "active"
    /\ phase' = "stopped"
    /\ lastEvent' = Event("deactivate")
    /\ UNCHANGED << newest, seatVars, active, now, dashVars, pollVars, pending, issued >>

\* The effect's cleanup, run on unmount.
DashboardUnmount ==
    /\ active = "Dashboard" /\ phase = "active"
    /\ phase' = "stopped"
    /\ interval' = ClearInterval(interval)
    /\ lastEvent' = Event("deactivate")
    /\ UNCHANGED << newest, seatVars, active, now, overview, activeSessions, usageData, loading,
                    pollVars, pending, issued >>

\* A state setter of the Dashboard component.  React drops an update of a
\* component that is no longer mounted; the call itself still happens and is
\* recorded in lastEvent by the caller.
SetState(cur, val) == IF phase = "active" THEN val ELSE cur

\* fetchOverview, from `await ApiService.getOverview()` fulfilled.
FetchOverviewResolve ==
    \E r \in pending, data \in OverviewResponses :
        /\ r.endpoint = "overview"
        /\ pending' = pending \ {r}
        /\ overview' = SetState(overview, data)
        /\ lastEvent' = Fulfilled(r, data, TRUE)
        /\ newest' = Newest(r)
        /\ UNCHANGED << seatVars, active, phase, now, interval, activeSessions, usageData,
                        loading, pollVars, issued >>

\* Mutant of FetchOverviewReject: the catch block resets the snapshot.
FetchOverviewRejectResets ==
    \E r \in pending :
        /\ r.endpoint = "overview"
        /\ pending' = pending \ {r}
        /\ overview' = SetState(overview, InitialOverview)
        /\ lastEvent' = Rejected(r)
        /\ UNCHANGED << newest, seatVars, active, phase, now, interval, activeSessions,
                        usageData, loading, pollVars, issued >>

\* fetchOverview, from the await rejected: the catch block logs.
FetchOverviewReject ==
    \E r \in pending :
        /\ r.endpoint = "overview"
        /\ pending' = pending \ {r}
        /\ lastEvent' = Rejected(r)
        /\ UNCHANGED << newest, seatVars, active, phase, now, dashVars, pollVars, issued >>

\* fetchActiveSessions, from `await ApiService.getActiveSessions()` fulfilled.
FetchActiveSessionsResolve ==
    \E r \in pending, data \in SessionsResponses :
        /\ r.endpoint = "sessions"
        /\ pending' = pending \ {r}
        /\ activeSessions' = SetState(activeSessions, data)
        /\ lastEvent' = Fulfilled(r, data, TRUE)
        /\ newest' = Newest(r)
        /\ UNCHANGED << seatVars, active, phase, now, interval, overview, usageData,
                        loading, pollVars, issued >>

\* fetchActiveSessions, from the await rejected.
FetchActiveSessionsReject ==
    \E r \in pending :
        /\ r.endpoint = "sessions"
        /\ pending' = pending \ {r}
        /\ lastEvent' = Rejected(r)
        /\ UNCHANGED << newest, seatVars, active, phase, now, dashVars, pollVars, issued >>

\* ---- the Duration cell of the active-sessions table
\* new Date(session.check_in_time), as the epoch milliseconds that `-`
\* coerces it to.
CheckInTime(session) == session.check_in_time

\* Mutant of MathFloor: truncation toward zero (Math.trunc, `| 0`).
MathTrunc(num, den) ==
    IF num < 0 THEN 0 - ((0 - num) \div den) ELSE num \div den

\* Math.floor(num / den) for den > 0: the quotient rounded toward minus
\* infinity.
MathFloor(num, den) == num \div den

\* Mutant of Duration: the operands of the subtraction exchanged.
DurationReversed(session, dateNow) ==
    MathFloor(CheckInTime(session) - dateNow, 1000 * 60)

\* const duration = Math.floor((Date.now() - checkInTime) / (1000 * 60)),
\* rendered with Date.now() = dateNow.
Duration(session, dateNow) ==
    MathFloor(dateNow - CheckInTime(session), 1000 * 60)

\* ---- fetchUsageData's reshaping of daily_stats
MonthAbbrev ==
    << "Jan", "Feb", "Mar", "Apr", "May", "Jun",
       "Jul", "Aug", "Sep", "Oct", "Nov", "Dec" >>
DigitChars == << "0", "1", "2", "3", "4", "5", "6", "7", "8", "9" >>
\* format(new Date(stat.date), 'MMM dd')
FormatMMMdd(date) ==
    << MonthAbbrev[date.month], DigitChars[(date.day \div 10) + 1],
       DigitChars[(date.day % 10) + 1] >>
\* Math.round on a value held in tenths: to the nearest integer, halves up.
MathRound(tenths) == (tenths + 5) \div 10
\* A JSON number, held in tenths.
Num(tenths) == [t |-> "number", v |-> tenths]
\* stat.avg_duration || 0, in tenths: null, an absent field and 0 are falsy.
OrZero(stat) ==
    IF "avg_duration" \notin DOMAIN stat THEN 0
    ELSE IF stat.avg_duration.t = "null" THEN 0
    ELSE stat.avg_duration.v
ChartPoint(stat) ==
    [date |-> FormatMMMdd(stat.date), sessions |-> stat.total_sessions,
     avgDuration |-> MathRound(OrZero(stat))]
\* Mutant of Reverse: the list is left in the order received.
NotReversed(s) == s

\* Array.prototype.reverse
Reverse(s) == [i \in 1..Len(s) |-> s[Len(s) + 1 - i]]
ChartData(daily_stats) ==
    Reverse([i \in 1..Len(daily_stats) |-> ChartPoint(daily_stats[i])])

Stat(m, d, n, avg) ==
    [date |-> [month |-> m, day |-> d], total_sessions |-> n, avg_duration |-> avg]
\* Responses of /api/analytics/usage, most recent day first; the last one
\* lacks daily_stats, so that `.map` throws inside the try block.
UsageResponses ==
    { [daily_stats |-> << >>],
      [daily_stats |-> << Stat(1, 3, 12, Num(455)), Stat(1, 2, 0, Null),
                          Stat(1, 1, 7, Num(304)) >>],
      [message |-> "no data"] }

\* fetchUsageData, from `await ApiService.getUsageAnalytics(7)` fulfilled
\* with one of responses.
FetchUsageDataFulfilled(responses) ==
    \E r \in pending, data \in responses :
        /\ r.endpoint = "usage"
        /\ pending' = pending \ {r}
        /\ IF "daily_stats" \notin DOMAIN data
           THEN \* TypeError inside try: caught, setLoading(false)
                /\ loading' = SetState(loading, FALSE)
                /\ lastEvent' = Fulfilled(r, data, FALSE)
                /\ UNCHANGED usageData
           ELSE /\ usageData' = SetState(usageData, ChartData(data.daily_stats))
                /\ loading' = SetState(loading, FALSE)
                /\ lastEvent' = Fulfilled(r, data, TRUE)
        /\ newest' = Newest(r)
        /\ UNCHANGED << seatVars, active, phase, now, interval, overview, activeSessions,
                        pollVars, issued >>

FetchUsageDataResolve == FetchUsageDataFulfilled(UsageResponses)

\* Mutant of FetchUsageDataReject: the catch block only logs, as the other
\* fetchers' do.
FetchUsageDataRejectKeepsLoading ==
    \E r \in pending :
        /\ r.endpoint = "usage"
        /\ pending' = pending \ {r}
        /\ lastEvent' = Rejected(r)
        /\ UNCHANGED << newest, seatVars, active, phase, now, dashVars, pollVars, issued >>

\* fetchUsageData, from the await rejected.
FetchUsageDataReject ==
    \E r \in pending :
        /\ r.endpoint = "usage"
        /\ pending' = pending \ {r}
        /\ loading' = SetState(loading, FALSE)
        /\ lastEvent' = Rejected(r)
        /\ UNCHANGED << newest, seatVars, active, phase, now, interval, overview, activeSessions,
                        usageData, pollVars, issued >>

\* What the Dashboard renders: `if (loading) return <LinearProgress />`,
\* otherwise the counters, the sessions table and the chart.
DashboardRender == IF loading THEN "LinearProgress" ELSE "content"

\* --------------------------------------------- ApiService.startPolling
\* startPolling(endpoint, callback, interval = 30000): the initial poll()
\* and the setInterval.
\* The optional third argument is the tail of the argument list: absent, or
\* an interval in ms.
IntervalArgs == { << >>, << TimeStep >> }
IntervalParam(args) == IF Len(args) = 0 THEN DefaultInterval ELSE args[1]

StartPolling ==
    \E args \in IntervalArgs :
        /\ active = "startPolling" /\ phase = "init"
        /\ phase' = "active"
        /\ Issue({"poll"})
        /\ intervalId' = SetInterval(IntervalParam(args))
        /\ lastEvent' = [kind |-> "activate", args |-> args]
        /\ UNCHANGED << newest, seatVars, active, now, dashVars, callbackData >>

\* The setInterval callback: poll().
PollTick ==
    /\ active = "startPolling"
    /\ intervalId.armed /\ intervalId.due = now
    /\ Issue({"poll"})
    /\ intervalId' = Rearm(intervalId)
    /\ lastEvent' = Event("tick")
    /\ UNCHANGED << newest, seatVars, active, phase, now, dashVars, callbackData >>

\* The returned cleanup function: () => clearInterval(intervalId).
PollCleanup ==
    /\ active = "startPolling" /\ phase = "active"
    /\ phase' = "stopped"
    /\ intervalId' = ClearInterval(intervalId)
    /\ lastEvent' = Event("deactivate")
    /\ UNCHANGED << newest, seatVars, active, now, dashVars, callbackData, pending, issued >>

\* ---- the response interceptor, written out for the polled endpoint (the
\* payload sets of the other endpoints are what it hands to their callers)
\* JSON values a body may hold besides numbers (Num) and null (Null); an
\* empty body reaches the interceptor as the empty string.
JsonObject(message) == [t |-> "object", error |-> message]
JsonBoolean(b) == [t |-> "boolean", b |-> b]
JsonString(str) == [t |-> "string", s |-> str]
UndefinedValue == [t |-> "undefined"]
\* JavaScript truthiness, as `||` tests it.
Truthy(value) ==
    CASE value.t = "undefined" -> FALSE
      [] value.t = "null" -> FALSE
      [] value.t = "number" -> value.v # 0
      [] value.t = "boolean" -> value.b
      [] value.t = "string" -> value.s # ""
      [] OTHER -> TRUE

\* 2xx responses of the polled endpoint.
OkResponses == { [status |-> 200, data |-> d] : d \in PollResponses }
\* Bodies of its non-2xx responses.
ErrorBodies ==
    { JsonObject("Seat not found"), JsonString(""), JsonBoolean(FALSE), Num(0) }
\* What axios rejects a request with: a timeout, a network error (neither
\* has a response), or a response whose status is not 2xx.
AxiosErrors ==
    { [t |-> "AxiosError", code |-> "ECONNABORTED"],
      [t |-> "AxiosError", code |-> "ERR_NETWORK"] }
    \cup { [t |-> "AxiosError", code |-> "ERR_BAD_RESPONSE",
            response |-> [status |-> 500, data |-> body]] : body \in ErrorBodies }

\* (response) => response.data
OnFulfilled(response) == response.data
\* (error) => { throw error.response?.data || error }
OnRejected(error) ==
    LET data == IF "response" \in DOMAIN error THEN error.response.data
                ELSE UndefinedValue
    IN IF Truthy(data) THEN data ELSE error

\* A settled poll records what axios produced and what the interceptor made
\* of it.
PollFulfilled(r, response) ==
    [kind |-> "fulfilled", endpoint |-> r.endpoint, seq |-> r.seq,
     data |-> OnFulfilled(response), applied |-> TRUE, response |-> response]
PollRejected(r, error) ==
    [kind |-> "rejected", endpoint |-> r.endpoint, seq |-> r.seq,
     error |-> error, reason |-> OnRejected(error)]

\* poll, from `await this.api.get(endpoint)` fulfilled: callback(data).
PollResolve ==
    \E r \in pending, response \in OkResponses :
        /\ r.endpoint = "poll"
        /\ pending' = pending \ {r}
        /\ callbackData' = OnFulfilled(response)
        /\ lastEvent' = PollFulfilled(r, response)
        /\ newest' = Newest(r)
        /\ UNCHANGED << seatVars, active, phase, now, dashVars, intervalId, issued >>

\* poll, from the await rejected: the catch block logs the reason.  The
\* timeout error is raised when the request's deadline passes.
PollReject ==
    \E r \in pending, error \in AxiosErrors :
        /\ r.endpoint = "poll"
        /\ error.code = "ECONNABORTED" => now = r.deadline
        /\ pending' = pending \ {r}
        /\ lastEvent' = PollRejected(r, error)
        /\ UNCHANGED << newest, seatVars, active, phase, now, dashVars, pollVars, issued >>

\* ------------------------------------------------------------ SeatLayout
\* Strings are sequences of one-character strings.
IsDigit(ch) == \E i \in 1..10 : DigitChars[i] = ch
DigitValue(ch) == (CHOOSE i \in 1..10 : DigitChars[i] = ch) - 1

\* Decimal rendering of a number in a template literal.
RECURSIVE NumToString(_)
NumToString(n) ==
    IF n < 10 THEN << DigitChars[n + 1] >>
    ELSE NumToString(n \div 10) \o << DigitChars[(n % 10) + 1] >>

\* Mutant of SeatNumberAt: row and column exchanged.
SeatNumberAtSwapped(row, col) ==
    << "R" >> \o NumToString(col + 1) \o << "S" >> \o NumToString(row + 1)

\* `R${row + 1}S${col + 1}`
SeatNumberAt(row, col) == << "R" >> \o NumToString(row + 1) \o << "S" >> \o NumToString(col + 1)

Seat(id, number, occupied, available) ==
    [id |-> id, seat_number |-> number, is_occupied |-> occupied,
     is_available |-> available]

\* seats.find(s => s.seat_number === seatNumber): the first match, or Null.
FindSeat(list, seatNumber) ==
    LET hits == { i \in 1..Len(list) : list[i].seat_number = seatNumber }
    IN IF hits = {} THEN Null
       ELSE list[CHOOSE i \in hits : \A j \in hits : i <= j]

Rows == 5
SeatsPerRow == 10

\* One cell of the grid: a SeatBox for a found seat, or the placeholder Box.
GridCell(list, row, col) ==
    LET seat == FindSeat(list, SeatNumberAt(row, col))
    IN IF seat # Null THEN [kind |-> "SeatBox", seat |-> seat]
       ELSE [kind |-> "empty", row |-> row, col |-> col]

\* Mutant of RowLoop: a missing seat pushes no placeholder.
RECURSIVE RowLoopNoPlaceholder(_, _, _, _)
RowLoopNoPlaceholder(list, row, col, rowSeats) ==
    IF col < SeatsPerRow
    THEN RowLoopNoPlaceholder(list, row, col + 1,
             IF GridCell(list, row, col).kind = "SeatBox"
             THEN Append(rowSeats, GridCell(list, row, col))
             ELSE rowSeats)
    ELSE rowSeats

\* The inner loop of renderSeatGrid: rowSeats.push(...) for col, col + 1, ...
RECURSIVE RowLoop(_, _, _, _)
RowLoop(list, row, col, rowSeats) ==
    IF col < SeatsPerRow
    THEN RowLoop(list, row, col + 1, Append(rowSeats, GridCell(list, row, col)))
    ELSE rowSeats

\* The outer loop: seatGrid.push(<Box key={row}>{rowSeats}</Box>).
RECURSIVE GridLoop(_, _, _)
GridLoop(list, row, seatGrid) ==
    IF row < Rows
    THEN GridLoop(list, row + 1, Append(seatGrid, RowLoop(list, row, 0, << >>)))
    ELSE seatGrid

\* renderSeatGrid: seatGrid[row + 1][col + 1] is the cell of (row, col).
RenderSeatGrid(list) == GridLoop(list, 0, << >>)

\* seats.filter(s => s.is_occupied).length
OccupiedSeats(list) == Len(SelectSeq(list, LAMBDA s : s.is_occupied))
\* Mutant of AvailableSeats: the occupied flag is not consulted.
AvailableSeatsIgnoresOccupied(list) ==
    Len(SelectSeq(list, LAMBDA s : s.is_available))

\* seats.filter(s => s.is_available && !s.is_occupied).length
AvailableSeats(list) ==
    Len(SelectSeq(list, LAMBDA s : s.is_available /\ ~s.is_occupied))

\* Mutant of GetSeatColor: the occupied flag is tested first.
GetSeatColorOccupiedFirst(seat) ==
    IF seat.is_occupied THEN "#f44336"
    ELSE IF ~seat.is_available THEN "#9e9e9e"
    ELSE "#4caf50"

\* SeatBox.getSeatColor
GetSeatColor(seat) ==
    IF ~seat.is_available THEN "#9e9e9e"
    ELSE IF seat.is_occupied THEN "#f44336"
    ELSE "#4caf50"

\* str.match(/\d+/): the first maximal run of digits, or Null.
MatchDigits(str) ==
    LET starts == { i \in 1..Len(str) : IsDigit(str[i]) }
    IN IF starts = {} THEN Null
       ELSE LET a == CHOOSE i \in starts : \A j \in starts : i <= j
                b == CHOOSE k \in a..Len(str) :
                         /\ \A j \in a..k : IsDigit(str[j])
                         /\ (k = Len(str) \/ ~IsDigit(str[k + 1]))
            IN [match |-> SubSeq(str, a, b)]

\* A digit string coerced to a number by `/` and `%`.
RECURSIVE ToNumber(_)
ToNumber(str) ==
    IF Len(str) = 0 THEN 0
    ELSE 10 * ToNumber(SubSeq(str, 1, Len(str) - 1)) + DigitValue(str[Len(str)])

\* Math.ceil(selectedSeat.seat_number.match(/\d+/)[0] / 10)
PositionRow(seat) == (ToNumber(MatchDigits(seat.seat_number).match) + 9) \div 10
\* Mutant of PositionColumn: the `|| 10` is missing.
PositionColumnNoWrap(seat) ==
    ToNumber(MatchDigits(seat.seat_number).match) % 10

\* selectedSeat.seat_number.match(/\d+/)[0] % 10 || 10
PositionColumn(seat) ==
    LET m == ToNumber(MatchDigits(seat.seat_number).match) % 10
    IN IF m = 0 THEN 10 ELSE m

\* ---- backend data of the SeatLayout view
Hall(id) == [id |-> id]
\* Responses of /api/halls.
HallsResponses == { << >>, << Hall(2), Hall(1) >> }

R1S1 == << "R", "1", "S", "1" >>
R3S7 == << "R", "3", "S", "7" >>
\* Responses of /api/halls/{hallId}/seats: the halls use the same seat
\* numbers, and a seat's id tells its hall.
SeatsResponses(hallId) ==
    { << Seat(100 * hallId + 1, R1S1, TRUE, TRUE) >>,
      << Seat(100 * hallId + 1, R1S1, FALSE, TRUE),
         Seat(100 * hallId + 2, R3S7, TRUE, FALSE) >> }

\* fetchSeats up to its await: setLoading(true) and the request, built with
\* the selectedHallId of the render the call comes from.
FetchSeatsStart(hallId) ==
    /\ seatsLoading' = TRUE
    /\ pending' = pending \cup { SeatsRequest(issued["seats"] + 1, hallId) }
    /\ issued' = [issued EXCEPT !["seats"] = issued["seats"] + 1]

\* Both mount effects: fetchHalls(), and fetchSeats() since selectedHallId
\* is truthy.
SeatLayoutMount ==
    /\ active = "SeatLayout" /\ phase = "init"
    /\ phase' = "active"
    /\ IF selectedHallId # 0
       THEN /\ seatsLoading' = TRUE
            /\ pending' = pending \cup { [Request("halls", 1) EXCEPT !.arg = selectedHallId],
                                         SeatsRequest(1, selectedHallId) }
            /\ issued' = [issued EXCEPT !["halls"] = 1, !["seats"] = 1]
       ELSE /\ pending' = pending \cup { [Request("halls", 1) EXCEPT !.arg = selectedHallId] }
            /\ issued' = [issued EXCEPT !["halls"] = 1]
            /\ UNCHANGED seatsLoading
    /\ lastEvent' = Event("activate")
    /\ UNCHANGED << newest, active, now, dashVars, pollVars, halls, selectedHallId, seats,
                    selectedSeat, seatsHall >>

\* fetchHalls, from `await ApiService.getHalls()` fulfilled.  The closure is
\* the first render's, so `selectedHallId` is the value at mount (r.arg); a
\* default selection re-runs the [selectedHallId] effect.
FetchHallsResolve ==
    \E r \in pending, data \in HallsResponses :
        /\ r.endpoint = "halls"
        /\ halls' = data
        /\ IF Len(data) > 0 /\ r.arg = 0
           THEN /\ selectedHallId' = data[1].id
                /\ IF data[1].id # 0 /\ data[1].id # selectedHallId
                   THEN /\ seatsLoading' = TRUE
                        /\ pending' = (pending \ {r}) \cup
                               { SeatsRequest(issued["seats"] + 1, data[1].id) }
                        /\ issued' = [issued EXCEPT !["seats"] = issued["seats"] + 1]
                   ELSE /\ pending' = pending \ {r}
                        /\ UNCHANGED << seatsLoading, issued >>
           ELSE /\ pending' = pending \ {r}
                /\ UNCHANGED << selectedHallId, seatsLoading, issued >>
        /\ lastEvent' = Fulfilled(r, data, TRUE)
        /\ newest' = Newest(r)
        /\ UNCHANGED << active, phase, now, dashVars, pollVars, seats, selectedSeat,
                        seatsHall >>

\* fetchHalls, from the await rejected.
FetchHallsReject ==
    \E r \in pending :
        /\ r.endpoint = "halls"
        /\ pending' = pending \ {r}
        /\ lastEvent' = Rejected(r)
        /\ UNCHANGED << newest, seatVars, active, phase, now, dashVars, pollVars, issued >>

\* Mutant of SelectHall: the [selectedHallId] effect is missing, the seats
\* being refreshed by other means only.
SelectHallNoFetch ==
    \E i \in 1..Len(halls) :
        /\ active = "SeatLayout" /\ phase = "active"
        /\ halls[i].id # selectedHallId
        /\ issued["seats"] < MaxSeatFetches
        /\ selectedHallId' = halls[i].id
        /\ lastEvent' = Event("selectHall")
        /\ UNCHANGED << newest, active, phase, now, dashVars, pollVars, halls, seats,
                        selectedSeat, seatsHall, seatsLoading, pending, issued >>

\* The Select's onChange and the [selectedHallId] effect it triggers.
SelectHall ==
    \E i \in 1..Len(halls) :
        /\ active = "SeatLayout" /\ phase = "active"
        /\ halls[i].id # selectedHallId
        /\ issued["seats"] < MaxSeatFetches
        /\ selectedHallId' = halls[i].id
        /\ IF halls[i].id # 0
           THEN FetchSeatsStart(halls[i].id)
           ELSE UNCHANGED << seatsLoading, pending, issued >>
        /\ lastEvent' = Event("selectHall")
        /\ UNCHANGED << newest, active, phase, now, dashVars, pollVars, halls, seats,
                        selectedSeat, seatsHall >>

\* handleRefresh
HandleRefresh ==
    /\ active = "SeatLayout" /\ phase = "active"
    /\ issued["seats"] < MaxSeatFetches
    /\ FetchSeatsStart(selectedHallId)
    /\ lastEvent' = Event("refresh")
    /\ UNCHANGED << newest, active, phase, now, dashVars, pollVars, halls, selectedHallId,
                    seats, selectedSeat, seatsHall >>

\* Mutant of FetchSeatsResolve: a response is applied only when no later
\* request has been issued (latest-issued wins).
FetchSeatsResolveLatestOnly ==
    \E r \in pending :
        /\ r.endpoint = "seats"
        /\ \E data \in SeatsResponses(r.arg) :
            /\ seats' = IF r.seq = issued["seats"] THEN data ELSE seats
            /\ lastEvent' = SeatsFulfilled(r, data, seats)
        /\ seatsHall' = IF r.seq = issued["seats"] THEN r.arg ELSE seatsHall
        /\ seatsLoading' = FALSE
        /\ pending' = pending \ {r}
        /\ newest' = Newest(r)
        /\ UNCHANGED << active, phase, now, dashVars, pollVars, halls, selectedHallId,
                        selectedSeat, issued >>

\* Mutant of FetchSeatsResolve: the response is merged into the snapshot
\* (setSeats([...seats, ...data])) instead of replacing it.
FetchSeatsResolveAppends ==
    \E r \in pending :
        /\ r.endpoint = "seats"
        /\ \E data \in SeatsResponses(r.arg) :
            /\ seats' = seats \o data
            /\ lastEvent' = SeatsFulfilled(r, data, seats)
        /\ seatsHall' = r.arg
        /\ seatsLoading' = FALSE
        /\ pending' = pending \ {r}
        /\ newest' = Newest(r)
        /\ UNCHANGED << active, phase, now, dashVars, pollVars, halls, selectedHallId,
                        selectedSeat, issued >>

\* Mutant of FetchSeatsResolve: the selection is re-synchronised with the
\* new snapshot (cleared when the seat is gone).
FetchSeatsResolveResyncs ==
    \E r \in pending :
        /\ r.endpoint = "seats"
        /\ \E data \in SeatsResponses(r.arg) :
            /\ seats' = data
            /\ selectedSeat' = IF selectedSeat = Null THEN Null
                               ELSE FindSeat(data, selectedSeat.seat_number)
            /\ lastEvent' = SeatsFulfilled(r, data, seats)
        /\ seatsHall' = r.arg
        /\ seatsLoading' = FALSE
        /\ pending' = pending \ {r}
        /\ newest' = Newest(r)
        /\ UNCHANGED << active, phase, now, dashVars, pollVars, halls, selectedHallId,
                        issued >>

\* fetchSeats, from `await ApiService.getHallSeats(selectedHallId)` fulfilled.
FetchSeatsResolve ==
    \E r \in pending :
        /\ r.endpoint = "seats"
        /\ \E data \in SeatsResponses(r.arg) :
            /\ seats' = data
            /\ lastEvent' = SeatsFulfilled(r, data, seats)
        /\ seatsHall' = r.arg
        /\ seatsLoading' = FALSE
        /\ pending' = pending \ {r}
        /\ newest' = Newest(r)
        /\ UNCHANGED << active, phase, now, dashVars, pollVars, halls, selectedHallId,
                        selectedSeat, issued >>

\* fetchSeats, from the await rejected: logged, then setLoading(false).
FetchSeatsReject ==
    \E r \in pending :
        /\ r.endpoint = "seats"
        /\ seatsLoading' = FALSE
        /\ pending' = pending \ {r}
        /\ lastEvent' = Rejected(r)
        /\ UNCHANGED << newest, active, phase, now, dashVars, pollVars, halls, selectedHallId,
                        seats, selectedSeat, seatsHall, issued >>

\* The seats a click can reach: those rendered as a SeatBox.
SeatBoxes(list) ==
    LET grid == RenderSeatGrid(list)
        cells == UNION { { grid[r][c] : c \in 1..Len(grid[r]) } : r \in 1..Len(grid) }
    IN { cell.seat : cell \in { x \in cells : x.kind = "SeatBox" } }

\* A click: the seat of the clicked SeatBox, and whether a seat of another
\* number was selected before it.
SeatClicked(seat, before) ==
    [kind |-> "seatClick", seat |-> seat,
     replaced |-> (before # Null /\ before.seat_number # seat.seat_number)]

\* Mutant of HandleSeatClick: a click is ignored while a seat is selected.
HandleSeatClickKeepsFirst ==
    \E seat \in SeatBoxes(seats) :
        /\ active = "SeatLayout" /\ phase = "active"
        /\ selectedSeat' = IF selectedSeat = Null THEN seat ELSE selectedSeat
        /\ lastEvent' = SeatClicked(seat, selectedSeat)
        /\ UNCHANGED << newest, active, phase, now, dashVars, pollVars, halls, selectedHallId,
                        seats, seatsLoading, seatsHall, pending, issued >>

\* handleSeatClick, from the onClick of a SeatBox.
HandleSeatClick ==
    \E seat \in SeatBoxes(seats) :
        /\ active = "SeatLayout" /\ phase = "active"
        /\ selectedSeat' = seat
        /\ lastEvent' = SeatClicked(seat, selectedSeat)
        /\ UNCHANGED << newest, active, phase, now, dashVars, pollVars, halls, selectedHallId,
                        seats, seatsLoading, seatsHall, pending, issued >>

Next ==
    \/ Advance
    \/ DashboardMount
    \/ DashboardTick
    \/ DashboardUnmount
    \/ FetchOverviewResolve
    \/ FetchOverviewReject
    \/ FetchActiveSessionsResolve
    \/ FetchActiveSessionsReject
    \/ FetchUsageDataResolve
    \/ FetchUsageDataReject
    \/ StartPolling
    \/ PollTick
    \/ PollCleanup
    \/ PollResolve
    \/ PollReject
    \/ SeatLayoutMount
    \/ FetchHallsResolve
    \/ FetchHallsReject
    \/ SelectHall
    \/ HandleRefresh
    \/ FetchSeatsResolve
    \/ FetchSeatsReject
    \/ HandleSeatClick

Spec == Init /\ [][Next]_vars

\* ------------------------------------------- SeatLayout over any snapshot
\* The seat numbers a backend may send: in the grid (one of them, R1S10,
\* extending another), outside it, and not of the R{row}S{col} form at all.
GridSeatNumbers ==
    { R1S1, R3S7, << "R", "1", "S", "1", "0" >>,
      << "R", "6", "S", "1" >>, << "A", "B" >> }

\* Every seat list of at most MaxSeats seats; a seat's id is its place.
SeatLists ==
    UNION { { [i \in 1..n |-> Seat(i, f[i][1], f[i][2], f[i][3])] :
                f \in [1..n -> GridSeatNumbers \X BOOLEAN \X BOOLEAN] } :
            n \in 0..MaxSeats }

\* A mounted SeatLayout whose first fetchSeats has just been fulfilled with
\* an arbitrary seat list, one more fetch being allowed.
GridInit ==
    /\ active = "SeatLayout"
    /\ phase = "active"
    /\ now = 0
    /\ interval = NoTimer
    /\ overview = InitialOverview
    /\ activeSessions = << >>
    /\ usageData = << >>
    /\ loading = TRUE
    /\ intervalId = NoTimer
    /\ callbackData = Undefined
    /\ halls = << >>
    /\ selectedHallId = InitialHallId
    /\ seats \in SeatLists
    /\ seatsLoading = FALSE
    /\ selectedSeat = Null
    /\ seatsHall = InitialHallId
    /\ pending = {}
    /\ issued = [e \in Endpoints |->
                    IF e = "seats" THEN MaxSeatFetches - 1
                    ELSE IF e = "halls" THEN 1 ELSE 0]
    /\ newest = issued
    /\ lastEvent = SeatsFulfilled(SeatsRequest(issued["seats"], InitialHallId), seats, << >>)

GridNext ==
    \/ HandleSeatClick
    \/ HandleRefresh
    \/ FetchSeatsResolve
    \/ FetchSeatsReject

GridSpec == GridInit /\ [][GridNext]_vars

\* --------------------------------------- Dashboard over any session list
\* Check-in times around the clock's values: in the past by about a minute,
\* at the instants the clock takes, and in the future (clock skew).
CheckInTimes ==
    { 0 - 60001, 0 - 60000, 0 - 59999, 0 - 50000, 0, 1, TimeStep,
      DashboardInterval, 90000 }

Session(id, checkIn) == [id |-> id, seat_number |-> "R3S7", check_in_time |-> checkIn]

\* Every session list of at most MaxSessions sessions.
SessionLists ==
    UNION { { [i \in 1..n |-> Session(i, f[i])] : f \in [1..n -> CheckInTimes] } :
            n \in 0..MaxSessions }

\* A mounted Dashboard whose three initial fetches have settled, the
\* sessions one with an arbitrary session list.
DurationInit ==
    /\ active = "Dashboard"
    /\ phase = "active"
    /\ now = 0
    /\ interval = SetInterval(DashboardInterval)
    /\ overview = InitialOverview
    /\ activeSessions \in SessionLists
    /\ usageData = << >>
    /\ loading = FALSE
    /\ intervalId = NoTimer
    /\ callbackData = Undefined
    /\ halls = << >>
    /\ selectedHallId = InitialHallId
    /\ seats = << >>
    /\ seatsLoading = TRUE
    /\ selectedSeat = Null
    /\ seatsHall = 0
    /\ pending = {}
    /\ issued = [e \in Endpoints |-> IF e \in DashboardEndpoints THEN 1 ELSE 0]
    /\ newest = [e \in Endpoints |-> IF e = "sessions" THEN 1 ELSE 0]
    /\ lastEvent = Fulfilled(Request("sessions", 1), activeSessions, TRUE)

DurationNext ==
    \/ Advance
    \/ DashboardTick
    \/ FetchOverviewResolve
    \/ FetchOverviewReject
    \/ FetchActiveSessionsResolve
    \/ FetchActiveSessionsReject

DurationSpec == DurationInit /\ [][DurationNext]_vars

\* ------------------------------------------ Dashboard over any usage list
\* Daily stats a backend may send: fractional, integral, zero, null and
\* absent averages.
DailyStats ==
    { Stat(1, 3, 12, Num(455)), Stat(1, 2, 0, Null), Stat(1, 1, 7, Num(304)),
      Stat(2, 10, 1, Num(0)), Stat(2, 9, 4, Num(40)),
      [date |-> [month |-> 12, day |-> 31], total_sessions |-> 3] }

\* Every daily_stats list of at most MaxStats days.
StatLists == UNION { [1..n -> DailyStats] : n \in 0..MaxStats }
AnyUsageResponses == { [daily_stats |-> l] : l \in StatLists }

\* A mounted Dashboard whose overview and sessions fetches have failed and
\* whose usage fetch is in flight.
UsageInit ==
    /\ active = "Dashboard"
    /\ phase = "active"
    /\ now = 0
    /\ interval = SetInterval(DashboardInterval)
    /\ overview = InitialOverview
    /\ activeSessions = << >>
    /\ usageData = << >>
    /\ loading = TRUE
    /\ intervalId = NoTimer
    /\ callbackData = Undefined
    /\ halls = << >>
    /\ selectedHallId = InitialHallId
    /\ seats = << >>
    /\ seatsLoading = TRUE
    /\ selectedSeat = Null
    /\ seatsHall = 0
    /\ pending = { Request("usage", 1) }
    /\ issued = [e \in Endpoints |-> IF e \in DashboardEndpoints THEN 1 ELSE 0]
    /\ newest = [e \in Endpoints |-> 0]
    /\ lastEvent = Rejected(Request("sessions", 1))

\* fetchUsageData fulfilled with any list of daily stats.
FetchUsageDataResolveAny == FetchUsageDataFulfilled(AnyUsageResponses)

UsageNext ==
    \/ Advance
    \/ FetchUsageDataResolveAny
    \/ FetchUsageDataReject
    \/ DashboardUnmount

UsageSpec == UsageInit /\ [][UsageNext]_vars

\* ------------------------------- the selected-seat panel over any seat
\* Seat numbers with a digit, whatever their first number: below, at and
\* above multiples of ten, and zero.
PanelSeatNumbers ==
    { R1S1, R3S7, << "R", "1", "S", "1", "0" >>, << "R", "1", "0", "S", "1" >>,
      << "R", "2", "0", "S", "3" >>, << "R", "0", "S", "5" >>,
      << "R", "1", "5", "S", "2" >>, << "4", "7" >> }

PanelSeats ==
    { Seat(1, n, o, a) : n \in PanelSeatNumbers, o \in BOOLEAN, a \in BOOLEAN }

\* A mounted SeatLayout whose panel holds an arbitrary seat record, the
\* Position expression being a function of the record alone.
PositionInit ==
    /\ active = "SeatLayout"
    /\ phase = "active"
    /\ now = 0
    /\ interval = NoTimer
    /\ overview = InitialOverview
    /\ activeSessions = << >>
    /\ usageData = << >>
    /\ loading = TRUE
    /\ intervalId = NoTimer
    /\ callbackData = Undefined
    /\ halls = << >>
    /\ selectedHallId = InitialHallId
    /\ seats \in SeatsResponses(InitialHallId)
    /\ seatsLoading = FALSE
    /\ selectedSeat \in PanelSeats
    /\ seatsHall = InitialHallId
    /\ pending = {}
    /\ issued = [e \in Endpoints |->
                    IF e = "seats" THEN MaxSeatFetches - 1
                    ELSE IF e = "halls" THEN 1 ELSE 0]
    /\ newest = issued
    /\ lastEvent = SeatClicked(selectedSeat, Null)

PositionNext ==
    \/ HandleSeatClick
    \/ HandleRefresh
    \/ FetchSeatsResolve
    \/ FetchSeatsReject

PositionSpec == PositionInit /\ [][PositionNext]_vars

\* ====================================================================
\* Properties
\* ====================================================================

\* C1: once a polling controller is deactivated (Dashboard unmount, or the
\* cleanup returned by startPolling), no step starts a request any more, the
\* tick that was pending at deactivation included.
NoFetchAfterDeactivation ==
    [][phase = "stopped" => issued' = issued]_vars

\* C1 witness: a deactivated Dashboard whose pending tick has come due and
\* that still has issued only the fetch of its activation.
DeactivatedPastDueTick ==
    /\ active = "Dashboard" /\ phase = "stopped"
    /\ now >= interval.due
    /\ issued["overview"] = 1

\* C2 (as claimed): after deactivation, no settled request reaches its
\* apply step (no state setter is called, the callback is not invoked).
NoApplyAfterDeactivation ==
    phase = "stopped" => ~(lastEvent.kind = "fulfilled" /\ lastEvent.applied)

\* C3: while active, a controller has issued one fetch at activation and one
\* more per elapsed interval on each bound resource (the usage chart only at
\* activation), the next tick is armed one interval after the last fetch,
\* and startPolling without an interval argument uses 30000 ms.
FetchPerTick ==
    /\ (active = "Dashboard" /\ phase = "active") =>
          /\ issued["overview"] >= 1
          /\ issued["sessions"] = issued["overview"]
          /\ issued["usage"] = 1
          /\ interval.armed
          /\ interval.due = 30000 * issued["overview"]
          /\ interval.due - 30000 <= now /\ now <= interval.due
    /\ (active = "startPolling" /\ phase = "active") =>
          /\ issued["poll"] >= 1
          /\ intervalId.armed
          /\ intervalId.due = intervalId.period * issued["poll"]
          /\ intervalId.due - intervalId.period <= now /\ now <= intervalId.due
          /\ lastEvent.kind = "activate" =>
                intervalId.period =
                    IF lastEvent.args = << >> THEN 30000 ELSE lastEvent.args[1]

\* C3 witness: an active Dashboard after its first tick.
DashboardAfterFirstTick ==
    /\ active = "Dashboard" /\ phase = "active"
    /\ lastEvent.kind = "tick"
    /\ issued["overview"] = 2 /\ issued["sessions"] = 2

\* C4: a step in which a request is rejected changes no displayed snapshot
\* and leaves the lifecycle and the timers as they were, so the next tick is
\* still armed.
FailureKeepsSnapshot ==
    [][lastEvent'.kind = "rejected" =>
          /\ overview' = overview
          /\ activeSessions' = activeSessions
          /\ usageData' = usageData
          /\ callbackData' = callbackData
          /\ seats' = seats
          /\ halls' = halls
          /\ interval' = interval
          /\ intervalId' = intervalId
          /\ phase' = phase]_vars

\* C4 witness: an overview request has just failed on an active Dashboard
\* that shows an earlier successful snapshot and whose timer is armed.
FailedAfterSuccess ==
    /\ active = "Dashboard" /\ phase = "active"
    /\ lastEvent.kind = "rejected" /\ lastEvent.endpoint = "overview"
    /\ overview \in OverviewResponses
    /\ interval.armed

\* C5 (as claimed): whenever seats are displayed, they were fetched for the
\* selected hall.
NoCrossHallSeats ==
    (active = "SeatLayout" /\ Len(seats) > 0) => seatsHall = selectedHallId

\* C6: right after a request is fulfilled, the view shows that request's
\* payload, whatever the order in which the requests were issued.
AppliedInCompletionOrder ==
    (lastEvent.kind = "fulfilled" /\ lastEvent.applied) =>
        /\ (lastEvent.endpoint = "overview" /\ phase = "active") =>
              overview = lastEvent.data
        /\ (lastEvent.endpoint = "sessions" /\ phase = "active") =>
              activeSessions = lastEvent.data
        /\ (lastEvent.endpoint = "usage" /\ phase = "active") =>
              usageData = ChartData(lastEvent.data.daily_stats)
        /\ lastEvent.endpoint = "poll" => callbackData = lastEvent.data
        /\ lastEvent.endpoint = "seats" => seats = lastEvent.data
        /\ lastEvent.endpoint = "halls" => halls = lastEvent.data

\* C6 witness: a seats request issued earlier is fulfilled after one issued
\* later, and its payload is what the SeatLayout shows.
OlderFulfilledLast ==
    /\ active = "SeatLayout" /\ phase = "active"
    /\ lastEvent.kind = "fulfilled" /\ lastEvent.endpoint = "seats"
    /\ lastEvent.seq < newest["seats"]
    /\ seats = lastEvent.data

\* The seat number of row r, column c (one-based) in the R{r}S{c} scheme,
\* written out for the 5 x 10 grid.
SchemeDigits(n) == IF n = 10 THEN << "1", "0" >> ELSE << DigitChars[n + 1] >>
SchemeNumber(r, c) == << "R" >> \o SchemeDigits(r) \o << "S" >> \o SchemeDigits(c)
\* Whether the cell shows seat s.
Shows(cell, s) == cell.kind = "SeatBox" /\ cell.seat = s

\* C7: the grid has 5 rows of 10 cells, each a SeatBox of a seat of the
\* snapshot or a placeholder, whatever the snapshot holds.
GridIsFiveByTen ==
    LET grid == RenderSeatGrid(seats)
    IN /\ Len(grid) = 5
       /\ \A r \in DOMAIN grid :
            /\ Len(grid[r]) = 10
            /\ \A c \in DOMAIN grid[r] :
                  \/ grid[r][c].kind = "empty"
                  \/ \E i \in DOMAIN seats : Shows(grid[r][c], seats[i])

\* C7 witness: a sparse snapshot holding a seat of the grid and a seat
\* whose number is not of the scheme.
SparseSnapshotWithStranger ==
    /\ Len(seats) = 2
    /\ seats[1].seat_number = << "A", "B" >>
    /\ seats[2].seat_number = R3S7
    /\ RenderSeatGrid(seats)[3][7].kind = "SeatBox"

\* C8 (as claimed): every seat numbered R{r}S{c} inside the grid is shown at
\* row index r-1, column index c-1, and every other seat in no cell.
EverySchemeSeatPlaced ==
    LET grid == RenderSeatGrid(seats)
    IN \A i \in DOMAIN seats :
         \A r \in DOMAIN grid : \A c \in DOMAIN grid[r] :
            Shows(grid[r][c], seats[i]) <=> seats[i].seat_number = SchemeNumber(r, c)

\* C8 (amended): the first seat of the list with a given number R{r}S{c}
\* inside the grid is shown at row index r-1, column index c-1 and nowhere
\* else; every other seat (a number outside the scheme or the grid, or a
\* number an earlier seat of the list already has) is shown in no cell.
FirstSchemeSeatPlaced ==
    LET grid == RenderSeatGrid(seats)
        first(i) == \A j \in 1..(i - 1) : seats[j].seat_number # seats[i].seat_number
    IN \A i \in DOMAIN seats :
         \A r \in DOMAIN grid : \A c \in DOMAIN grid[r] :
            Shows(grid[r][c], seats[i]) <=>
                (seats[i].seat_number = SchemeNumber(r, c) /\ first(i))

\* C8 witness: two seats share the number R3S7, the first is shown at row
\* index 2, column index 6.
DuplicateSeatNumber ==
    /\ Len(seats) = 2
    /\ seats[1].seat_number = R3S7 /\ seats[2].seat_number = R3S7
    /\ Shows(RenderSeatGrid(seats)[3][7], seats[1])

\* C9 (as claimed): the selected-seat panel shows the row and the column
\* whose scheme number is the selected seat's number.
PositionInvertsSeatNumber ==
    selectedSeat # Null =>
        /\ PositionRow(selectedSeat) \in 1..5
        /\ PositionColumn(selectedSeat) \in 1..10
        /\ selectedSeat.seat_number =
              SchemeNumber(PositionRow(selectedSeat), PositionColumn(selectedSeat))

\* C10: the occupied count is the number of seats of the current snapshot
\* flagged occupied, the available count the number flagged available and
\* not occupied.
CountsOfCurrentSnapshot ==
    /\ OccupiedSeats(seats) =
          Cardinality({ i \in DOMAIN seats : seats[i].is_occupied })
    /\ AvailableSeats(seats) =
          Cardinality({ i \in DOMAIN seats :
                          seats[i].is_available /\ ~seats[i].is_occupied })

\* C10 witness: a refresh has replaced the earlier snapshot by one with a
\* free seat and an occupied, unavailable seat.
CountsAfterReplacement ==
    /\ lastEvent.kind = "fulfilled" /\ lastEvent.seq = MaxSeatFetches
    /\ Len(seats) = 2
    /\ seats[1].is_available /\ ~seats[1].is_occupied
    /\ seats[2].is_occupied /\ ~seats[2].is_available
    /\ OccupiedSeats(seats) = 1 /\ AvailableSeats(seats) = 1

\* C11: when a fulfilled seat fetch delivers the seat list the view already
\* shows (the same snapshot applied a second time in a row), the occupied
\* count, the available count and the grid are those of that list, as they
\* were after the first application.
SameSnapshotTwice ==
    (/\ lastEvent.kind = "fulfilled" /\ lastEvent.endpoint = "seats"
     /\ lastEvent.repeated) =>
        /\ OccupiedSeats(seats) = OccupiedSeats(lastEvent.data)
        /\ AvailableSeats(seats) = AvailableSeats(lastEvent.data)
        /\ RenderSeatGrid(seats) = RenderSeatGrid(lastEvent.data)

\* C11 witness: the second fetch of a SeatLayout has been fulfilled with the
\* seat list that the first one had delivered, a list with an occupied seat.
SnapshotAppliedTwice ==
    /\ active = "SeatLayout" /\ phase = "active"
    /\ lastEvent.kind = "fulfilled" /\ lastEvent.endpoint = "seats"
    /\ lastEvent.seq = 2 /\ newest["seats"] = 2
    /\ lastEvent.repeated
    /\ OccupiedSeats(lastEvent.data) = 1

\* C12: the duration shown for a session is the floor of
\* (now - check_in_time) / 60000: the largest integer d with
\* 60000 * d <= now - check_in_time, negative (and not clamped to 0, not
\* truncated toward 0) when the check-in time is later than now.
DurationIsFloor ==
    \A i \in DOMAIN activeSessions :
        LET c == activeSessions[i].check_in_time
            d == Duration(activeSessions[i], now)
        IN /\ 60000 * d <= now - c
           /\ now - c < 60000 * (d + 1)
           /\ c > now => d < 0

\* C12 witness: a session checked in 80 s in the future is shown with a
\* duration of -2 minutes.
FutureCheckIn ==
    /\ active = "Dashboard" /\ phase = "active"
    /\ now = 10000
    /\ Len(activeSessions) = 1
    /\ activeSessions[1].check_in_time = 90000
    /\ Duration(activeSessions[1], now) = 0 - 2

\* C13: a session whose check-in time is now has duration 0, and while the
\* session list stays the same no step makes a session's duration smaller.
DurationMonotone ==
    /\ [](\A i \in DOMAIN activeSessions :
            activeSessions[i].check_in_time = now =>
                Duration(activeSessions[i], now) = 0)
    /\ [][activeSessions' = activeSessions =>
            \A i \in DOMAIN activeSessions :
                Duration(activeSessions[i], now') >= Duration(activeSessions[i], now)]_vars

\* C13 witness: the clock has advanced to a session's check-in time, whose
\* duration went from -1 to 0.
ClockReachedCheckIn ==
    /\ active = "Dashboard" /\ phase = "active"
    /\ lastEvent.kind = "advance"
    /\ now = TimeStep
    /\ Len(activeSessions) = 1
    /\ activeSessions[1].check_in_time = now
    /\ Duration(activeSessions[1], 0) = 0 - 1
    /\ Duration(activeSessions[1], now) = 0

\* C14: right after fetchUsageData applied a list of daily stats, the chart
\* has one point per day, none dropped, in the reverse of the order
\* received; each point has that day's session count and date label, and as
\* avgDuration the nearest integer to the day's average (halves up), 0 for
\* a null or absent average.
UsageChartReversed ==
    (/\ lastEvent.kind = "fulfilled" /\ lastEvent.endpoint = "usage"
     /\ lastEvent.applied /\ phase = "active") =>
        LET stats == lastEvent.data.daily_stats
            n == Len(stats)
        IN /\ Len(usageData) = n
           /\ \A i \in 1..n :
                LET point == usageData[n + 1 - i]
                    stat == stats[i]
                IN /\ point.sessions = stat.total_sessions
                   /\ point.date = FormatMMMdd(stat.date)
                   /\ IF "avg_duration" \in DOMAIN stat /\ stat.avg_duration # Null
                      THEN /\ 10 * point.avgDuration - 5 <= stat.avg_duration.v
                           /\ stat.avg_duration.v < 10 * point.avgDuration + 5
                      ELSE point.avgDuration = 0

\* C14 witness: a two-day list, the more recent day averaging 45.5 minutes
\* and the older one null, charted as (older, 0), (recent, 46).
TwoDaysNullAndHalf ==
    /\ lastEvent.kind = "fulfilled" /\ lastEvent.endpoint = "usage"
    /\ lastEvent.applied /\ phase = "active"
    /\ lastEvent.data.daily_stats =
          << Stat(1, 3, 12, Num(455)), Stat(1, 2, 0, Null) >>
    /\ Len(usageData) = 2
    /\ usageData[1].avgDuration = 0 /\ usageData[1].sessions = 0
    /\ usageData[2].avgDuration = 46 /\ usageData[2].sessions = 12

\* C15: the selection is a single value, no seat before the first click and
\* one seat record afterwards; right after a click it is the clicked seat,
\* whatever was selected before.
SingleSelection ==
    /\ phase = "init" => selectedSeat = Null
    /\ \/ selectedSeat = Null
       \/ DOMAIN selectedSeat = { "id", "seat_number", "is_occupied", "is_available" }
    /\ lastEvent.kind = "seatClick" => selectedSeat = lastEvent.seat

\* C15 witness: a click on one seat while another seat was selected.
ClickReplacedSelection ==
    /\ lastEvent.kind = "seatClick"
    /\ lastEvent.replaced
    /\ selectedSeat = lastEvent.seat

\* C16: only a seat click changes the selection: a mount, a hall change, a
\* refresh, a settled fetch (fulfilled or rejected) and the passing of time
\* leave it as it is.
OnlyClickChangesSelection ==
    [][selectedSeat' # selectedSeat => lastEvent'.kind = "seatClick"]_vars

\* C16 witness: a seat fetch has just been fulfilled with a snapshot that
\* no longer holds the selected seat's number, and the seat is still
\* selected.
SelectionOutlivesSeat ==
    /\ lastEvent.kind = "fulfilled" /\ lastEvent.endpoint = "seats"
    /\ selectedSeat # Null
    /\ selectedSeat.seat_number = R3S7
    /\ FindSeat(seats, selectedSeat.seat_number) = Null

\* C17: a step issues at most one seat fetch, for the hall selected after
\* the step, and only if it is the mount with a hall selected, a change of
\* the selected hall or a manual refresh; every change of the selected hall
\* issues one; the SeatLayout arms no timer and neither a timer callback nor
\* the passing of time issues one.
SeatFetchTriggers ==
    /\ [](active = "SeatLayout" => ~interval.armed /\ ~intervalId.armed)
    /\ [][/\ issued'["seats"] # issued["seats"] =>
              /\ issued'["seats"] = issued["seats"] + 1
              /\ \/ lastEvent'.kind = "activate" /\ selectedHallId # 0
                 \/ selectedHallId' # selectedHallId
                 \/ lastEvent'.kind = "refresh"
              /\ \E r \in pending' \ pending :
                    /\ r.endpoint = "seats" /\ r.seq = issued'["seats"]
                    /\ r.arg = selectedHallId'
          /\ selectedHallId' # selectedHallId =>
                issued'["seats"] = issued["seats"] + 1
          /\ lastEvent'.kind \in { "tick", "advance" } =>
                issued'["seats"] = issued["seats"]]_vars

\* C17 witness: the user has just selected hall 2 and the fetch of its seats
\* is in flight.
HallChangeFetched ==
    /\ active = "SeatLayout" /\ lastEvent.kind = "selectHall"
    /\ selectedHallId = 2
    /\ \E r \in pending :
          r.endpoint = "seats" /\ r.seq = issued["seats"] /\ r.arg = 2

\* C18 (as claimed): while no hall has been returned the selected hall is
\* the fallback identifier, and right after getHalls is fulfilled with a
\* non-empty list (no hall can have been selected by the user before) the
\* selected hall is the first hall of the list.
DefaultsToFirstHall ==
    active = "SeatLayout" =>
        /\ halls = << >> => selectedHallId = InitialHallId
        /\ (/\ lastEvent.kind = "fulfilled" /\ lastEvent.endpoint = "halls"
            /\ Len(halls) > 0) => selectedHallId = halls[1].id

\* C19 (as claimed): a request rejected with a non-2xx response that has a
\* body is rejected with that body, one without a response or with an
\* empty body with the original error; a 2xx response is resolved to its
\* payload.
SurfacesPayloadVerbatim ==
    /\ (lastEvent.kind = "rejected" /\ "error" \in DOMAIN lastEvent) =>
          IF /\ "response" \in DOMAIN lastEvent.error
             /\ lastEvent.error.response.data # JsonString("")
          THEN lastEvent.reason = lastEvent.error.response.data
          ELSE lastEvent.reason = lastEvent.error
    /\ (lastEvent.kind = "fulfilled" /\ "response" \in DOMAIN lastEvent) =>
          /\ lastEvent.data = lastEvent.response.data
          /\ callbackData = lastEvent.response.data

\* C20: for a selected seat whose number contains a digit, the column of
\* the panel is in 1..10: it is the last digit of the first number of the
\* seat number, and 10 when that digit is 0.
ColumnNeverZero ==
    (selectedSeat # Null /\ \E i \in DOMAIN selectedSeat.seat_number :
                               IsDigit(selectedSeat.seat_number[i])) =>
        LET first == MatchDigits(selectedSeat.seat_number).match
            last == first[Len(first)]
        IN /\ PositionColumn(selectedSeat) \in 1..10
           /\ PositionColumn(selectedSeat) =
                 IF last = "0" THEN 10 ELSE DigitValue(last)

\* C20 witness: the selected seat's first number is 20, a multiple of ten,
\* and the panel shows column 10.
ColumnWrapsToTen ==
    /\ selectedSeat # Null
    /\ selectedSeat.seat_number = << "R", "2", "0", "S", "3" >>
    /\ PositionColumn(selectedSeat) = 10

\* The cells of a rendered grid drawn in the occupied colour (red).
RedCells(grid) ==
    { rc \in (DOMAIN grid) \X (1..SeatsPerRow) :
        /\ grid[rc[1]][rc[2]].kind = "SeatBox"
        /\ GetSeatColor(grid[rc[1]][rc[2]].seat) = "#f44336" }

\* C21: a SeatBox of an unavailable seat is grey whether or not the seat is
\* occupied; the number of red cells is at most the occupied count, and is
\* smaller exactly when the snapshot holds an occupied seat that is
\* unavailable or that no cell of the grid shows.
UnavailableIsGrey ==
    \A grid \in { RenderSeatGrid(seats) } :
    \A red \in { Cardinality(RedCells(grid)) } :
        LET shown(i) == \E r \in DOMAIN grid : \E c \in DOMAIN grid[r] :
                            Shows(grid[r][c], seats[i])
        IN /\ \A r \in DOMAIN grid : \A c \in DOMAIN grid[r] :
                (grid[r][c].kind = "SeatBox" /\ ~grid[r][c].seat.is_available) =>
                    GetSeatColor(grid[r][c].seat) = "#9e9e9e"
           /\ red <= OccupiedSeats(seats)
           /\ red # OccupiedSeats(seats) <=>
                 \E i \in DOMAIN seats :
                     seats[i].is_occupied /\ (~seats[i].is_available \/ ~shown(i))

\* C21 witness: a seat of the grid that is occupied and unavailable is drawn
\* grey, next to an occupied available seat drawn red: one red cell, an
\* occupied count of two.
OccupiedButGrey ==
    /\ Len(seats) = 2
    /\ seats[1].seat_number = R1S1 /\ seats[1].is_occupied /\ ~seats[1].is_available
    /\ seats[2].seat_number = R3S7 /\ seats[2].is_occupied /\ seats[2].is_available
    /\ GetSeatColor(RenderSeatGrid(seats)[1][1].seat) = "#9e9e9e"
    /\ Cardinality(RedCells(RenderSeatGrid(seats))) = 1
    /\ OccupiedSeats(seats) = 2

\* C22: a mounted Dashboard is loading, and renders the progress bar only,
\* exactly while its usage fetch is in flight, whatever has become of the
\* overview and the sessions; the usage fetch is issued once, by the mount
\* and by no tick; and loading, once false, stays false.
LoadingUntilUsageSettles ==
    /\ []((active = "Dashboard" /\ phase = "active") =>
            /\ loading <=> \E r \in pending : r.endpoint = "usage"
            /\ DashboardRender = "LinearProgress" <=>
                  \E r \in pending : r.endpoint = "usage"
            /\ issued["usage"] = 1)
    /\ [][active = "Dashboard" =>
            /\ ~loading => ~loading'
            /\ issued'["usage"] # issued["usage"] => lastEvent'.kind = "activate"
            /\ lastEvent'.kind = "tick" => issued'["usage"] = issued["usage"]]_vars

\* C22 witness: the overview and the sessions of a mounted Dashboard have
\* been applied, its usage fetch is still in flight, and it shows the
\* progress bar.
LoadingDespiteSnapshots ==
    /\ active = "Dashboard" /\ phase = "active"
    /\ overview \in OverviewResponses
    /\ newest["overview"] = 1 /\ newest["sessions"] = 1
    /\ \E r \in pending : r.endpoint = "usage"
    /\ loading /\ DashboardRender = "LinearProgress"
====
